---- MODULE Spec2Model ----
(***************************************************************************)
(* ffpipe: the pipeline parser (PipelineParser.run) and the field rules of *)
(* pipeline-validators.ts, as a state machine.                             *)
(*                                                                         *)
(* The process holds one identifier tracker (the static list of validated  *)
(* ids of PipelineParserService).  A run parses its text, maps it to the   *)
(* DTO tree, validates the tree step by step in declaration order (one     *)
(* synchronous segment), suspends at its await, and on resumption either   *)
(* hands the errors to handleValidationErrors (which ends the process) or  *)
(* resets the tracker and returns the pipeline.                            *)
(***************************************************************************)
EXTENDS Integers, Sequences, FiniteSets, TLC

\* Longest list of steps of a document.
MaxSteps == 2

\* The run invocations of the process, numbered in the order of the calls.
Runs == {1, 2}

(***************************************************************************)
(* Values of a document                                                    *)
(***************************************************************************)

\* The id of a step as JSON.parse delivers it: absent, a string, a number.
IdUndef == [t |-> "undef", n |-> 0]
IdStr == [t |-> "str", n |-> 0]
IdNum(k) == [t |-> "num", n |-> k]

\* One element of an "input" array.  kind: "nonstring", "invalid" (a string
\* that is neither a filename nor a selector), "file", "selector".
FileItem(e) ==
    [kind |-> "file", ext |-> e, hasTarget |-> FALSE, target |-> 0, initOk |-> TRUE]
SelectorItem(k) ==
    [kind |-> "selector", ext |-> "none", hasTarget |-> TRUE, target |-> k, initOk |-> TRUE]

\* The value of an "input" field: absent, not an array, or an array.
InputArray(items) == [t |-> "array", items |-> items]

\* A step of the document: its id, its name, its input field and the set
\* of names of the other argument fields that are present.
MkStep(id, name, input, fields) ==
    [id |-> id, name |-> name, input |-> input, fields |-> fields]

(***************************************************************************)
(* Reference tracker (PipelineParserService)                               *)
(***************************************************************************)

isIdAlreadyUsed(ids, v) == \E i \in 1 .. Len(ids) : ids[i] = v
addValidateId(ids, v) == Append(ids, v)
resetValidatedIds == << >>

(***************************************************************************)
(* Field rules (pipeline-validators.ts)                                    *)
(***************************************************************************)

\* A ParseResult.  n is the value interpolated in the message (0 if none);
\* seen is the set of ids a tracker lookup of this call found present.
Success == [success |-> TRUE, message |-> "", n |-> 0, seen |-> {}]
Failure(m, k) == [success |-> FALSE, message |-> m, n |-> k, seen |-> {}]

isNumber(value) == value.t = "num"

\* ValidId.parse without the lookup of the tracker.
ValidIdParseNoLookup(value, ids) ==
    IF value.t = "undef" THEN [res |-> Failure("id is not defined!", 0), ids |-> ids]
    ELSE IF ~isNumber(value) THEN [res |-> Failure("is not a valid id!", 0), ids |-> ids]
    ELSE IF value.n <= 0 THEN [res |-> Failure("id must be a positive number!", 0), ids |-> ids]
    ELSE [res |-> Success, ids |-> addValidateId(ids, value.n)]

\* ValidId.parse without the sign test.
ValidIdParseNoSign(value, ids) ==
    IF value.t = "undef" THEN [res |-> Failure("id is not defined!", 0), ids |-> ids]
    ELSE IF ~isNumber(value) THEN [res |-> Failure("is not a valid id!", 0), ids |-> ids]
    ELSE IF isIdAlreadyUsed(ids, value.n)
        THEN [res |-> [Failure("id is already used!", value.n) EXCEPT !.seen = {value.n}],
              ids |-> ids]
    ELSE [res |-> Success, ids |-> addValidateId(ids, value.n)]

\* ValidId.parse: the result and the tracker it leaves.
ValidIdParse(value, ids) ==
    IF value.t = "undef" THEN [res |-> Failure("id is not defined!", 0), ids |-> ids]
    ELSE IF ~isNumber(value) THEN [res |-> Failure("is not a valid id!", 0), ids |-> ids]
    ELSE IF value.n <= 0 THEN [res |-> Failure("id must be a positive number!", 0), ids |-> ids]
    ELSE IF isIdAlreadyUsed(ids, value.n)
        THEN [res |-> [Failure("id is already used!", value.n) EXCEPT !.seen = {value.n}],
              ids |-> ids]
    ELSE [res |-> Success, ids |-> addValidateId(ids, value.n)]

\* ValidId as class-validator drives it: validate, and defaultMessage (a
\* second parse, on the tracker the first one left) when validate failed.
ValidIdRule(value, ids) ==
    LET first == ValidIdParse(value, ids)
    IN  IF first.res.success THEN first
        ELSE LET second == ValidIdParse(value, first.ids)
             IN  [res |-> [second.res EXCEPT !.success = FALSE,
                                             !.seen = first.res.seen \cup second.res.seen],
                  ids |-> second.ids]

\* The step names of EnumInstruction and EnumStatement.
KnownStepNames == {"split", "custom"}

\* ValidStepName.validate and its defaultMessage.
ValidStepName(value) ==
    IF value \in KnownStepNames THEN Success
    ELSE Failure("is not a valid step name!", 0)

isSelector(input) == input.kind = "selector"
isValidFilename(input) == input.kind = "file"
hasVideoExtension(input) == input.ext = "video"
hasAudioExtension(input) == input.ext = "audio"

\* The options of ValidFileInputs; hasMin/hasMax tell whether min/max are set.
FileOptions(hasMin, min, hasMax, max, videoOnly, audioOnly) ==
    [hasMin |-> hasMin, min |-> min, hasMax |-> hasMax, max |-> max,
     videoOnly |-> videoOnly, audioOnly |-> audioOnly]

\* The lookup of the target of a selector: the target when the tracker
\* holds it.
TargetFound(input, ids) ==
    IF isSelector(input) /\ input.initOk /\ input.hasTarget
       /\ isIdAlreadyUsed(ids, input.target)
    THEN {input.target} ELSE {}

\* The loop of ValidFileInputs.parse over the elements, from element i on;
\* seen gathers the selector targets the tracker held.
RECURSIVE ValidFileInputsItems(_, _, _, _, _)

\* The loop with the extension tests applied to selectors too.
ValidFileInputsItemsAnyKind(items, i, options, ids, seen) ==
    IF i > Len(items) THEN [Success EXCEPT !.seen = seen]
    ELSE IF items[i].kind = "nonstring"
        THEN [Failure("input items must be a string!", 0) EXCEPT !.seen = seen]
    ELSE IF ~isValidFilename(items[i]) /\ ~isSelector(items[i])
        THEN [Failure("invalid input file", 0) EXCEPT !.seen = seen]
    ELSE IF isSelector(items[i]) /\ ~items[i].initOk
        THEN [Failure("selector error", 0) EXCEPT !.seen = seen]
    ELSE IF isSelector(items[i]) /\ items[i].hasTarget
            /\ ~isIdAlreadyUsed(ids, items[i].target)
        THEN [Failure("step does not exist!", items[i].target) EXCEPT !.seen = seen]
    ELSE IF options.videoOnly /\ ~hasVideoExtension(items[i])
        THEN [Failure("input file must be a video", 0)
                 EXCEPT !.seen = seen \cup TargetFound(items[i], ids)]
    ELSE IF options.audioOnly /\ ~hasAudioExtension(items[i])
        THEN [Failure("input file must be an audio", 0)
                 EXCEPT !.seen = seen \cup TargetFound(items[i], ids)]
    ELSE ValidFileInputsItems(items, i + 1, options, ids,
                              seen \cup TargetFound(items[i], ids))

ValidFileInputsItems(items, i, options, ids, seen) ==
    IF i > Len(items) THEN [Success EXCEPT !.seen = seen]
    ELSE IF items[i].kind = "nonstring"
        THEN [Failure("input items must be a string!", 0) EXCEPT !.seen = seen]
    ELSE IF ~isValidFilename(items[i]) /\ ~isSelector(items[i])
        THEN [Failure("invalid input file", 0) EXCEPT !.seen = seen]
    ELSE IF isSelector(items[i]) /\ ~items[i].initOk
        THEN [Failure("selector error", 0) EXCEPT !.seen = seen]
    ELSE IF isSelector(items[i]) /\ items[i].hasTarget
            /\ ~isIdAlreadyUsed(ids, items[i].target)
        THEN [Failure("step does not exist!", items[i].target) EXCEPT !.seen = seen]
    ELSE IF options.videoOnly /\ ~isSelector(items[i]) /\ ~hasVideoExtension(items[i])
        THEN [Failure("input file must be a video", 0)
                 EXCEPT !.seen = seen \cup TargetFound(items[i], ids)]
    ELSE IF options.audioOnly /\ ~isSelector(items[i]) /\ ~hasAudioExtension(items[i])
        THEN [Failure("input file must be an audio", 0)
                 EXCEPT !.seen = seen \cup TargetFound(items[i], ids)]
    ELSE ValidFileInputsItems(items, i + 1, options, ids,
                              seen \cup TargetFound(items[i], ids))

\* ValidFileInputs.parse that takes the bounds as exclusive.
ValidFileInputsExclusive(value, options, ids) ==
    IF value.t = "undef" THEN Failure("input is not defined!", 0)
    ELSE IF value.t # "array" THEN Failure("input must be an array!", 0)
    ELSE IF options.hasMin /\ Len(value.items) <= options.min
        THEN Failure("not enough input files!", options.min)
    ELSE IF options.hasMax /\ Len(value.items) >= options.max
        THEN Failure("too many input files!", options.max)
    ELSE ValidFileInputsItems(value.items, 1, options, ids, {})

\* ValidFileInputs.parse.
ValidFileInputs(value, options, ids) ==
    IF value.t = "undef" THEN Failure("input is not defined!", 0)
    ELSE IF value.t # "array" THEN Failure("input must be an array!", 0)
    ELSE IF options.hasMin /\ Len(value.items) < options.min
        THEN Failure("not enough input files!", options.min)
    ELSE IF options.hasMax /\ Len(value.items) > options.max
        THEN Failure("too many input files!", options.max)
    ELSE ValidFileInputsItems(value.items, 1, options, ids, {})

\* The first constraint of an Optional decorator.  kind: "null" (no
\* constraints array), "undefined", "object"; entries: the number of keys
\* of the object; all tells what includeAll is: "absent", "falsy" (null, 0,
\* false), "emptystring", "notarray" (any other value that is not an array)
\* or "array"; includeAny is the list under that key (empty when absent).
OptionalOptions(kind, entries, all, includeAll) ==
    [kind |-> kind, entries |-> entries, all |-> all, includeAll |-> includeAll,
     includeAny |-> << >>]

\* The options { includeAny: names }.
IncludeAnyOptions(names) ==
    [OptionalOptions("object", 1, "absent", << >>) EXCEPT !.includeAny = names]

\* What a call of a rule's parse gave: its ParseResult, or threw when it
\* raised instead of returning.
OptionalResult(res, threw) == [res |-> res, threw |-> threw]

\* Optional.parse that takes the names of includeAll as alternatives.
OptionalAnyOf(present, options, fields) ==
    IF options.kind = "null" THEN OptionalResult(Success, TRUE)
    ELSE IF options.kind = "undefined" \/ options.entries = 0
        THEN OptionalResult(IF present THEN Success
                            ELSE Failure("value is not defined!", 0), FALSE)
    ELSE IF options.all = "notarray" \/ (options.all = "array" /\ Len(options.includeAll) = 0)
        THEN OptionalResult(Success, TRUE)
    ELSE IF present THEN OptionalResult(Success, FALSE)
    ELSE IF options.all \in {"absent", "falsy"} THEN OptionalResult(Success, TRUE)
    ELSE IF options.all = "emptystring" THEN OptionalResult(Success, FALSE)
    ELSE IF \A i \in 1 .. Len(options.includeAll) : options.includeAll[i] \notin fields
        THEN OptionalResult(Failure("at least one of the following options must be defined", 0),
                            FALSE)
    ELSE OptionalResult(Success, FALSE)

\* Optional.parse: present tells whether the value is defined, fields is
\* the set of names of the defined fields of args.object.  Object.entries
\* raises on null; the loop over includeAll raises when includeAll is not
\* iterable (absent, null, 0, false) and has no turn on an empty string.
Optional(present, options, fields) ==
    IF options.kind = "null" THEN OptionalResult(Success, TRUE)
    ELSE IF options.kind = "undefined" \/ options.entries = 0
        THEN OptionalResult(IF present THEN Success
                            ELSE Failure("value is not defined!", 0), FALSE)
    ELSE IF options.all = "notarray" \/ (options.all = "array" /\ Len(options.includeAll) = 0)
        THEN OptionalResult(Success, TRUE)
    ELSE IF present THEN OptionalResult(Success, FALSE)
    ELSE IF options.all \in {"absent", "falsy"} THEN OptionalResult(Success, TRUE)
    ELSE IF options.all = "emptystring" THEN OptionalResult(Success, FALSE)
    ELSE IF \E i \in 1 .. Len(options.includeAll) : options.includeAll[i] \notin fields
        THEN OptionalResult(Failure("at least one of the following options must be defined", 0),
                            FALSE)
    ELSE OptionalResult(Success, FALSE)

\* A value given to ValidSelector: kind "selector" or not; initOk tells
\* whether the selector's init returns, outType its expected output type.
SelectorValue(kind, initOk, outType) ==
    [kind |-> kind, initOk |-> initOk, outType |-> outType]

\* The first constraint of a ValidSelector decorator.  kind: "null" (no
\* constraints array, or a falsy first constraint), "object"; expectedType
\* is "none" when the object does not set it.
SelectorOptions(kind, expectedType) == [kind |-> kind, expectedType |-> expectedType]

\* ValidSelector.parse: the selector is constructed and initialised with
\* nothing to catch what init raises.
ValidSelector(value, options) ==
    IF ~isSelector(value) THEN OptionalResult(Failure("invalid selector!", 0), FALSE)
    ELSE IF options.kind = "null" THEN OptionalResult(Success, FALSE)
    ELSE IF options.expectedType = "none" THEN OptionalResult(Success, FALSE)
    ELSE IF ~value.initOk THEN OptionalResult(Success, TRUE)
    ELSE IF value.outType # options.expectedType
        THEN OptionalResult(Failure("invalid selector params!", 0), FALSE)
    ELSE OptionalResult(Success, FALSE)

(***************************************************************************)
(* Resolution of statements (statement.service.ts)                         *)
(***************************************************************************)

\* The identifiers of the registered statement classes.
STATEMENTS == {"custom"}

\* StatementService.resolve and resolveDTOModel: the class (its DTO model)
\* registered under the name; both raise when find comes back empty.
resolve(name) ==
    IF name \in STATEMENTS THEN [threw |-> FALSE, found |-> name]
    ELSE [threw |-> TRUE, found |-> ""]
resolveDTOModel(name) ==
    IF name \in STATEMENTS THEN [threw |-> FALSE, found |-> name]
    ELSE [threw |-> TRUE, found |-> ""]

(***************************************************************************)
(* Split.FfmpegProcess: the segments                                       *)
(***************************************************************************)

\* Durations reported by getDuration are counted in half seconds.
\* Math.round of a duration of h half seconds, and Math.ceil of a / b.
MathRound(h) == (h + 1) \div 2
MathCeil(a, b) == (a + b - 1) \div b

\* The -ss / -t options of the command of segment i (from 0).
Segment(i, segmentDuration) == [startTime |-> i * segmentDuration, t |-> segmentDuration]

\* The body of FfmpegProcess up to the commands it prepares.  duration is
\* what getDuration gave (half seconds, 0 when falsy); segmentDuration and
\* nbSegments are the arguments, 0 when not given.
SplitSegments(duration, segmentDuration, nbSegments) ==
    IF duration = 0 THEN [threw |-> TRUE, nbSegments |-> 0, segments |-> << >>]
    ELSE IF segmentDuration = 0 /\ nbSegments = 0
        THEN [threw |-> TRUE, nbSegments |-> 0, segments |-> << >>]
    ELSE IF segmentDuration = 0
        THEN [threw |-> FALSE, nbSegments |-> nbSegments,
              segments |-> [i \in 1 .. nbSegments |->
                               Segment(i - 1, MathCeil(MathRound(duration), nbSegments))]]
    ELSE [threw |-> FALSE, nbSegments |-> MathCeil(MathRound(duration), segmentDuration),
          segments |-> [i \in 1 .. MathCeil(MathRound(duration), segmentDuration) |->
                           Segment(i - 1, segmentDuration)]]

(***************************************************************************)
(* Step kinds and the validation of one step                               *)
(***************************************************************************)

\* The argument schema registered for a step kind: the options of its
\* "input" field and its Optional fields in declared order.  "split" needs
\* one video input and one of segmentDuration, nbSegments; "custom" is a
\* kind registered with an Optional whose includeAll list is empty.
KindSchema(name) ==
    IF name = "split"
    THEN [input |-> FileOptions(TRUE, 1, TRUE, 1, TRUE, FALSE),
          optionals |-> << [field |-> "segmentDuration",
                            options |-> OptionalOptions("object", 1, "array", <<"nbSegments">>)],
                           [field |-> "nbSegments",
                            options |-> OptionalOptions("object", 1, "array", <<"segmentDuration">>)] >>]
    ELSE [input |-> FileOptions(TRUE, 1, FALSE, 0, FALSE, FALSE),
          optionals |-> << [field |-> "option",
                            options |-> OptionalOptions("object", 1, "array", << >>)] >>]

\* A leaf of the diagnostic tree, under the step it belongs to (0: the
\* pipeline itself).
Diagnostic(step, field, res) ==
    [step |-> step, field |-> field, message |-> res.message, n |-> res.n]

\* The diagnostics of the failed results of a sequence of [field, res].
RECURSIVE FailedOf(_, _)
FailedOf(step, results) ==
    IF results = << >> THEN << >>
    ELSE (IF Head(results).res.success THEN << >>
          ELSE << Diagnostic(step, Head(results).field, Head(results).res) >>)
         \o FailedOf(step, Tail(results))

\* The nested validation of a step's arguments: the input field, then each
\* Optional field.  threw: one of the rules raised.
ValidateArgs(index, step, ids) ==
    LET schema == KindSchema(step.name)
        input == ValidFileInputs(step.input, schema.input, ids)
        opt == [i \in 1 .. Len(schema.optionals) |->
                   Optional(schema.optionals[i].field \in step.fields,
                            schema.optionals[i].options, step.fields)]
    IN  [diags |-> FailedOf(index, << [field |-> "input", res |-> input] >>
                            \o [i \in 1 .. Len(opt) |->
                                   [field |-> schema.optionals[i].field, res |-> opt[i].res]]),
         threw |-> \E i \in 1 .. Len(opt) : opt[i].threw,
         seen |-> input.seen]

\* The validation of one step, fields in declared order: id, name, args.
\* The arguments of a step of unknown name have no schema to validate.
ValidateStepDTO(index, step, ids) ==
    LET id == ValidIdRule(step.id, ids)
        name == ValidStepName(step.name)
        args == IF name.success THEN ValidateArgs(index, step, id.ids)
                ELSE [diags |-> << >>, threw |-> FALSE, seen |-> {}]
    IN  [ids |-> id.ids,
         accepted |-> IF id.res.success THEN {step.id.n} ELSE {},
         diags |-> FailedOf(index, << [field |-> "id", res |-> id.res],
                                      [field |-> "name", res |-> name] >>) \o args.diags,
         threw |-> args.threw,
         seenById |-> id.res.seen,
         seenByInput |-> args.seen]

\* The validation of the pipeline object itself: its list of steps must
\* not be empty.
ValidatePipelineDTO(steps) ==
    IF Len(steps) = 0
    THEN << Diagnostic(0, "steps", Failure("steps must not be empty", 0)) >>
    ELSE << >>

(***************************************************************************)
(* Documents                                                               *)
(***************************************************************************)

OneFile == InputArray(<< FileItem("video") >>)
OneSelector(k) == InputArray(<< SelectorItem(k) >>)

\* The steps documents are made of: a split of a file under every kind of
\* id, a split of the output of step 1, and a custom step.
FileStepIds == {IdUndef, IdStr} \cup {IdNum(k) : k \in -1 .. 1}
StepValues ==
    {MkStep(id, "split", OneFile, {"segmentDuration"}) : id \in FileStepIds}
    \cup {MkStep(IdNum(2), "split", OneSelector(1), {"segmentDuration"}),
          MkStep(IdNum(1), "custom", OneFile, {})}

\* An input text: one JSON.parse rejects ("malformed"), one that is JSON
\* for a falsy value ("falsy"), or an object with a list of steps.
Malformed == [t |-> "malformed", steps |-> << >>]
Falsy == [t |-> "falsy", steps |-> << >>]
Document(steps) == [t |-> "object", steps |-> steps]
Documents ==
    {Malformed, Falsy}
    \cup {Document(s) : s \in UNION {[1 .. k -> StepValues] : k \in 0 .. MaxSteps}}

\* parseInputPipeline that takes any text for a document.
parseInputPipelineLenient(text) == [threw |-> FALSE, model |-> text.steps]

\* parseInputPipeline: JSON.parse, a falsy model raises as a parse error does.
parseInputPipeline(text) ==
    IF text.t = "malformed" \/ text.t = "falsy"
    THEN [threw |-> TRUE, model |-> << >>]
    ELSE [threw |-> FALSE, model |-> text.steps]

(***************************************************************************)
(* The validation traversal                                                *)
(***************************************************************************)

\* class-validator's traversal of the steps from step i on, in declaration
\* order, on tracker ids.  log holds, for each step validated so far, the
\* tracker it left, the id it had accepted and the ids its lookups found;
\* diags the diagnostics so far.  A rule that raises ends the traversal.
\* The traversal once step i has been validated with result v.
RECURSIVE Traverse(_, _, _, _, _)
TraverseOn(steps, i, log, diags, v) ==
    LET entry == [ids |-> v.ids, accepted |-> v.accepted,
                  seenById |-> v.seenById, seenByInput |-> v.seenByInput]
    IN  IF v.threw
        THEN [ids |-> v.ids, log |-> Append(log, entry), diags |-> diags, threw |-> TRUE]
        ELSE Traverse(steps, i + 1, v.ids, Append(log, entry), diags \o v.diags)

Traverse(steps, i, ids, log, diags) ==
    IF i > Len(steps) THEN [ids |-> ids, log |-> log, diags |-> diags, threw |-> FALSE]
    ELSE CHOOSE t \in {TraverseOn(steps, i, log, diags, v) :
                          v \in {ValidateStepDTO(i, steps[i], ids)}} : TRUE

\* ClassTransformService.validate up to its await: the errors of the
\* pipeline object and of its steps.
Validate(steps, ids) ==
    LET t == Traverse(steps, 1, ids, << >>, << >>)
    IN  [ids |-> t.ids, log |-> t.log, threw |-> t.threw,
         errors |-> ValidatePipelineDTO(steps) \o t.diags]

(***************************************************************************)
(* State                                                                   *)
(***************************************************************************)

VARIABLES
    validatedIds,   \* the tracker of the process
    exited,         \* process.exit was called
    pc,             \* where each run is
    inputPipeline,  \* the text each parser was built with
    pipelineDTO,    \* the mapped steps of each run
    log,            \* per run, the result of each step it validated
    errors,         \* the validation errors of each run
    call            \* a call of one rule or function on its own: its
                    \* arguments and, once done, what it gave

vars == << validatedIds, exited, pc, inputPipeline, pipelineDTO, log, errors, call >>

\* No call of a rule on its own.
NoCall == [op |-> "none", args |-> << >>, done |-> FALSE, out |-> << >>]

Finished == {"returned", "documentError", "contractViolation", "exited"}

Init ==
    /\ validatedIds = << >>
    /\ exited = FALSE
    /\ pc = [r \in Runs |-> "idle"]
    /\ inputPipeline = [r \in Runs |-> Malformed]
    /\ pipelineDTO = [r \in Runs |-> << >>]
    /\ log = [r \in Runs |-> << >>]
    /\ errors = [r \in Runs |-> << >>]
    /\ call = NoCall

\* run that keeps the first of the validation errors only.
RunBeginFirstErrorOnly(r, text) ==
    /\ ~exited
    /\ pc[r] = "idle"
    /\ \A q \in Runs : q < r => pc[q] # "idle"
    /\ inputPipeline' = [inputPipeline EXCEPT ![r] = text]
    /\ LET parsed == parseInputPipeline(text)
           v == Validate(parsed.model, validatedIds)
       IN  IF parsed.threw
           THEN /\ pc' = [pc EXCEPT ![r] = "documentError"]
                /\ UNCHANGED << validatedIds, pipelineDTO, log, errors >>
           ELSE /\ pipelineDTO' = [pipelineDTO EXCEPT ![r] = parsed.model]
                /\ validatedIds' = v.ids
                /\ log' = [log EXCEPT ![r] = v.log]
                /\ IF v.threw
                   THEN /\ pc' = [pc EXCEPT ![r] = "contractViolation"]
                        /\ UNCHANGED errors
                   ELSE /\ pc' = [pc EXCEPT ![r] = "awaiting"]
                        /\ errors' = [errors EXCEPT
                                          ![r] = SubSeq(v.errors, 1, IF v.errors = << >> THEN 0 ELSE 1)]
    /\ UNCHANGED << exited, call >>

\* new PipelineParser(text).run(), up to the await: the parse, the mapping
\* and the validation traversal, one synchronous segment.
RunBegin(r, text) ==
    /\ ~exited
    /\ pc[r] = "idle"
    /\ \A q \in Runs : q < r => pc[q] # "idle"
    /\ inputPipeline' = [inputPipeline EXCEPT ![r] = text]
    /\ LET parsed == parseInputPipeline(text)
           v == Validate(parsed.model, validatedIds)
       IN  IF parsed.threw
           THEN /\ pc' = [pc EXCEPT ![r] = "documentError"]
                /\ UNCHANGED << validatedIds, pipelineDTO, log, errors >>
           ELSE /\ pipelineDTO' = [pipelineDTO EXCEPT ![r] = parsed.model]
                /\ validatedIds' = v.ids
                /\ log' = [log EXCEPT ![r] = v.log]
                /\ IF v.threw
                   THEN /\ pc' = [pc EXCEPT ![r] = "contractViolation"]
                        /\ UNCHANGED errors
                   ELSE /\ pc' = [pc EXCEPT ![r] = "awaiting"]
                        /\ errors' = [errors EXCEPT ![r] = v.errors]
    /\ UNCHANGED << exited, call >>

\* The run resumes after its await: handleValidationErrors (log, then
\* process.exit) when there are errors, else the reset of the tracker and
\* the return of the pipeline.
RunResume(r) ==
    /\ ~exited
    /\ pc[r] = "awaiting"
    /\ IF errors[r] # << >>
       THEN /\ exited' = TRUE
            /\ pc' = [pc EXCEPT ![r] = "exited"]
            /\ UNCHANGED validatedIds
       ELSE /\ validatedIds' = resetValidatedIds
            /\ pc' = [pc EXCEPT ![r] = "returned"]
            /\ UNCHANGED exited
    /\ UNCHANGED << inputPipeline, pipelineDTO, log, errors, call >>

Next ==
    \E r \in Runs :
        \/ \E text \in Documents : RunBegin(r, text)
        \/ RunResume(r)

Spec == Init /\ [][Next]_vars

\* Runs called one after the other: a run begins when none is in flight.
NoRunInFlight == \A q \in Runs : pc[q] # "awaiting"

NextSeq ==
    \E r \in Runs :
        \/ \E text \in Documents : NoRunInFlight /\ RunBegin(r, text)
        \/ RunResume(r)

SpecSeq == Init /\ [][NextSeq]_vars

(***************************************************************************)
(* The rules and functions called on their own                             *)
(***************************************************************************)

\* Longest "input" array, longest duration (in half seconds), largest
\* segmentDuration and nbSegments of the calls.
MaxInputs == 3
MaxDuration == 12
MaxSegmentDuration == 3
MaxSegments == 3

\* The Optional decorators: without constraints array, with an undefined
\* first constraint, with {}, with includeAll an array of 0, 1, 2 names or
\* not an array, with includeAny.
OptionalConfigs ==
    {OptionalOptions("null", 0, "absent", << >>),
     OptionalOptions("undefined", 0, "absent", << >>),
     OptionalOptions("object", 0, "absent", << >>),
     OptionalOptions("object", 1, "array", << >>),
     OptionalOptions("object", 1, "array", << "a" >>),
     OptionalOptions("object", 1, "array", << "a", "b" >>),
     OptionalOptions("object", 1, "notarray", << >>),
     OptionalOptions("object", 1, "falsy", << >>),
     OptionalOptions("object", 1, "emptystring", << >>),
     IncludeAnyOptions(<< "a", "b" >>)}

\* The elements of the "input" arrays: a video file, an audio file, a
\* selector of step 1, a selector without target, a selector whose init
\* raises, a string that is neither, and an element that is no string.
InputItems ==
    {FileItem("video"), FileItem("audio"), SelectorItem(1),
     [SelectorItem(0) EXCEPT !.hasTarget = FALSE],
     [SelectorItem(1) EXCEPT !.initOk = FALSE],
     [FileItem("none") EXCEPT !.kind = "invalid"],
     [FileItem("none") EXCEPT !.kind = "nonstring"]}

InputValues ==
    {[t |-> "undef", items |-> << >>], [t |-> "other", items |-> << >>]}
    \cup {InputArray(items) : items \in UNION {[1 .. k -> InputItems] : k \in 0 .. MaxInputs}}

\* The ValidFileInputs decorators: min absent, 1 or 2; max absent or 2;
\* videoOnly, audioOnly or neither.
FileConfigs ==
    {FileOptions(min > 0, min, max > 0, max, only = "video", only = "audio") :
        min \in 0 .. 2, max \in {0, 2}, only \in {"none", "video", "audio"}}

SelectorValues ==
    {SelectorValue(kind, initOk, outType) :
        kind \in {"selector", "invalid"}, initOk \in BOOLEAN, outType \in {"video", "audio"}}

SelectorConfigs ==
    {SelectorOptions("null", "none"), SelectorOptions("object", "none"),
     SelectorOptions("object", "video"), SelectorOptions("object", "audio")}

\* The names given to the resolution of statements: an instruction, a
\* statement, and one that is neither.
StepNames == KnownStepNames \cup {"unknown"}

Call(op, args, out) == [op |-> op, args |-> args, done |-> FALSE, out |-> out]

InitRules ==
    /\ validatedIds = << >>
    /\ exited = FALSE
    /\ pc = [r \in Runs |-> "idle"]
    /\ inputPipeline = [r \in Runs |-> Malformed]
    /\ pipelineDTO = [r \in Runs |-> << >>]
    /\ log = [r \in Runs |-> << >>]
    /\ errors = [r \in Runs |-> << >>]
    /\ \/ \E present \in BOOLEAN, options \in OptionalConfigs, fields \in SUBSET {"a", "b"} :
              call = Call("Optional",
                          [present |-> present, options |-> options, fields |-> fields],
                          OptionalResult(Success, FALSE))
       \/ \E value \in InputValues, options \in FileConfigs, ids \in {<< >>, << 1 >>} :
              call = Call("ValidFileInputs",
                          [value |-> value, options |-> options, ids |-> ids],
                          OptionalResult(Success, FALSE))
       \/ \E value \in SelectorValues, options \in SelectorConfigs :
              call = Call("ValidSelector", [value |-> value, options |-> options],
                          OptionalResult(Success, FALSE))
       \/ \E name \in StepNames, op \in {"resolve", "resolveDTOModel"} :
              call = Call(op, [name |-> name], [threw |-> FALSE, found |-> ""])
       \/ \E value \in StepNames :
              call = Call("ValidStepName", [value |-> value], OptionalResult(Success, FALSE))
       \/ \E duration \in 0 .. MaxDuration, segmentDuration \in 0 .. MaxSegmentDuration,
             nbSegments \in 0 .. MaxSegments :
              call = Call("Split",
                          [duration |-> duration, segmentDuration |-> segmentDuration,
                           nbSegments |-> nbSegments],
                          [threw |-> FALSE, nbSegments |-> 0, segments |-> << >>])

\* The call is made: op is applied to the arguments.
Apply(op, out) ==
    /\ call.op = op
    /\ ~call.done
    /\ call' = [call EXCEPT !.done = TRUE, !.out = out]
    /\ UNCHANGED << validatedIds, exited, pc, inputPipeline, pipelineDTO, log, errors >>

ApplyOptional ==
    /\ call.op = "Optional"
    /\ Apply("Optional", Optional(call.args.present, call.args.options, call.args.fields))

\* ValidFileInputs.parse returns whatever the selectors do: it catches
\* what their construction raises.
ApplyValidFileInputs ==
    /\ call.op = "ValidFileInputs"
    /\ Apply("ValidFileInputs",
             OptionalResult(ValidFileInputs(call.args.value, call.args.options, call.args.ids),
                            FALSE))

ApplyValidSelector ==
    /\ call.op = "ValidSelector"
    /\ Apply("ValidSelector", ValidSelector(call.args.value, call.args.options))

ApplyValidStepName ==
    /\ call.op = "ValidStepName"
    /\ Apply("ValidStepName", OptionalResult(ValidStepName(call.args.value), FALSE))

ApplyResolve ==
    /\ call.op = "resolve"
    /\ Apply("resolve", resolve(call.args.name))

ApplyResolveDTOModel ==
    /\ call.op = "resolveDTOModel"
    /\ Apply("resolveDTOModel", resolveDTOModel(call.args.name))

ApplySplit ==
    /\ call.op = "Split"
    /\ Apply("Split", SplitSegments(call.args.duration, call.args.segmentDuration,
                                    call.args.nbSegments))

NextRules ==
    \/ ApplyOptional
    \/ ApplyValidFileInputs
    \/ ApplyValidSelector
    \/ ApplyValidStepName
    \/ ApplyResolve
    \/ ApplyResolveDTOModel
    \/ ApplySplit

SpecRules == InitRules /\ [][NextRules]_vars

(***************************************************************************)
(* Split.FfmpegProcess: the promise                                        *)
(***************************************************************************)

\* What a call of FfmpegProcess has come to.  pc: "getDuration" (the
\* executor is suspended at its await), "thrown" (the executor threw),
\* "waiting" (the executor has ended with the segment commands running);
\* promise: the state of the promise FfmpegProcess returned; processes: per
\* segment command "running", "ended" or "errored"; outputFiles: the number
\* of files the promise was resolved with.
Process(at, promise, processes, outputFiles) ==
    [pc |-> at, promise |-> promise, processes |-> processes, outputFiles |-> outputFiles]

InitSplit ==
    /\ validatedIds = << >>
    /\ exited = FALSE
    /\ pc = [r \in Runs |-> "idle"]
    /\ inputPipeline = [r \in Runs |-> Malformed]
    /\ pipelineDTO = [r \in Runs |-> << >>]
    /\ log = [r \in Runs |-> << >>]
    /\ errors = [r \in Runs |-> << >>]
    /\ \E duration \in 0 .. MaxDuration, segmentDuration \in 0 .. MaxSegmentDuration,
          nbSegments \in 0 .. MaxSegments :
           call = Call("FfmpegProcess",
                       [duration |-> duration, segmentDuration |-> segmentDuration,
                        nbSegments |-> nbSegments],
                       Process("getDuration", "pending", << >>, 0))

\* A step of the call: the promise and the rest go from call.out to out.
Step(out) ==
    /\ call' = [call EXCEPT !.done = (out.promise # "pending"), !.out = out]
    /\ UNCHANGED << validatedIds, exited, pc, inputPipeline, pipelineDTO, log, errors >>

\* Promise.all(processes).then(resolve).catch(reject), as far as it settles
\* the promise: the first settlement of the promise is the one that counts.
PromiseAll(promise, processes) ==
    IF promise # "pending" THEN promise
    ELSE IF \E i \in 1 .. Len(processes) : processes[i] = "errored" THEN "rejected"
    ELSE IF \A i \in 1 .. Len(processes) : processes[i] = "ended" THEN "resolved"
    ELSE "pending"

\* The number of files of outputFiles.flat() when the promise resolves.
OutputFiles(promise, processes) == IF promise = "resolved" THEN Len(processes) ELSE 0

\* getDuration has answered and the async executor runs to its end: it
\* throws (nothing catches it, resolve and reject are not called), or it
\* starts one command per segment and hands them to Promise.all.
ExecutorResumes ==
    /\ call.op = "FfmpegProcess"
    /\ call.out.pc = "getDuration"
    /\ LET plan == SplitSegments(call.args.duration, call.args.segmentDuration,
                                 call.args.nbSegments)
           processes == [i \in 1 .. Len(plan.segments) |-> "running"]
       IN  IF plan.threw
           THEN Step(Process("thrown", "pending", << >>, 0))
           ELSE Step(Process("waiting", PromiseAll("pending", processes), processes,
                             OutputFiles(PromiseAll("pending", processes), processes)))

\* The command of segment i emits 'end'.
SegmentEnd(i) ==
    /\ call.op = "FfmpegProcess"
    /\ call.out.pc = "waiting"
    /\ i \in 1 .. Len(call.out.processes)
    /\ call.out.processes[i] = "running"
    /\ LET processes == [call.out.processes EXCEPT ![i] = "ended"]
       IN  Step(Process("waiting", PromiseAll(call.out.promise, processes), processes,
                        OutputFiles(PromiseAll(call.out.promise, processes), processes)))

\* The command of segment i emits 'error'.
SegmentError(i) ==
    /\ call.op = "FfmpegProcess"
    /\ call.out.pc = "waiting"
    /\ i \in 1 .. Len(call.out.processes)
    /\ call.out.processes[i] = "running"
    /\ LET processes == [call.out.processes EXCEPT ![i] = "errored"]
       IN  Step(Process("waiting", PromiseAll(call.out.promise, processes), processes, 0))

NextSplit ==
    \/ ExecutorResumes
    \/ \E i \in DOMAIN call.out.processes : SegmentEnd(i)
    \/ \E i \in DOMAIN call.out.processes : SegmentError(i)

\* getDuration answers and every command started ends or fails.
SpecSplit == InitSplit /\ [][NextSplit]_vars /\ WF_vars(NextSplit)

(***************************************************************************)
(* Vocabulary of the properties                                            *)
(***************************************************************************)

\* The run is past its validation traversal and the traversal was complete.
Validated(r) == pc[r] \in {"awaiting", "returned", "exited"}

\* The values the tracker holds.
Held(ids) == {ids[i] : i \in 1 .. Len(ids)}

\* The ids the identifier rule of run r accepted before step i, and up to
\* step i included (the identifier rule of a step runs before its input rule).
AcceptedBefore(r, i) == UNION {log[r][j].accepted : j \in 1 .. (i - 1)}
AcceptedUpTo(r, i) == UNION {log[r][j].accepted : j \in 1 .. i}

\* The ids a lookup of run r found in the tracker though no identifier rule
\* of run r had put them there.
Foreign(r) ==
    UNION {(log[r][i].seenById \ AcceptedBefore(r, i))
           \cup (log[r][i].seenByInput \ AcceptedUpTo(r, i)) : i \in 1 .. Len(log[r])}

\* The tracker holds positive numbers only and none of them twice.
WellFormedTracker(ids) ==
    /\ \A i \in 1 .. Len(ids) : ids[i] > 0
    /\ \A i \in 1 .. Len(ids) : \A j \in 1 .. Len(ids) : ids[i] = ids[j] => i = j

\* Run r has a diagnostic with this message on this field of step i.
HasDiagnostic(r, i, field, message) ==
    \E k \in 1 .. Len(errors[r]) :
        /\ errors[r][k].step = i
        /\ errors[r][k].field = field
        /\ errors[r][k].message = message
HasFieldDiagnostic(r, i, field) ==
    \E k \in 1 .. Len(errors[r]) : errors[r][k].step = i /\ errors[r][k].field = field

\* Step i of run r takes the output of step k as its input.
SelectsStep(r, i, k) ==
    LET step == pipelineDTO[r][i]
    IN  /\ step.name \in KnownStepNames
        /\ step.input.t = "array"
        /\ Len(step.input.items) = 1
        /\ isSelector(step.input.items[1])
        /\ step.input.items[1].hasTarget
        /\ step.input.items[1].target = k

\* The id of step i of run r violates the identifier rule: it is no
\* positive number, or an earlier step of the run had it accepted.
IdViolates(r, i) ==
    \/ ~isNumber(pipelineDTO[r][i].id)
    \/ pipelineDTO[r][i].id.n <= 0
    \/ pipelineDTO[r][i].id.n \in AcceptedBefore(r, i)

\* The input of step i of run r violates the file-inputs rule: it selects
\* a step the tracker did not hold when the rule ran.
InputViolates(r, i) ==
    \E k \in 1 .. 2 : SelectsStep(r, i, k) /\ k \notin Held(log[r][i].ids)

\* What the caller of run r has got once the run is over.
Outcome(r) ==
    [how |-> pc[r],
     pipeline |-> IF pc[r] = "returned" THEN pipelineDTO[r] ELSE << >>,
     errors |-> IF pc[r] = "exited" THEN errors[r] ELSE << >>]

\* What the caller gets of a run of this text on an empty tracker.
OutcomeAlone(text) ==
    LET parsed == parseInputPipeline(text)
        v == Validate(parsed.model, << >>)
    IN  IF parsed.threw THEN [how |-> "documentError", pipeline |-> << >>, errors |-> << >>]
        ELSE IF v.threw THEN [how |-> "contractViolation", pipeline |-> << >>, errors |-> << >>]
        ELSE IF v.errors # << >> THEN [how |-> "exited", pipeline |-> << >>, errors |-> v.errors]
        ELSE [how |-> "returned", pipeline |-> parsed.model, errors |-> << >>]

\* The pipeline "split with id 1, then a step with id 2 that takes the
\* output of step 1".
SplitThenSelect ==
    Document(<< MkStep(IdNum(1), "split", OneFile, {"segmentDuration"}),
                MkStep(IdNum(2), "split", OneSelector(1), {"segmentDuration"}) >>)

(***************************************************************************)
(* Properties                                                              *)
(***************************************************************************)

\* C1: whenever a run finishes, whichever way (pipeline returned, document
\* error, diagnostics handled, contract violation), the tracker is empty
\* at that moment.
C1_TrackerResetOnEveryExit ==
    [][\A r \in Runs :
          (pc[r] \notin Finished /\ pc'[r] \in Finished) => validatedIds' = << >>]_vars

\* C2: with runs called one after the other, what a finished run gave its
\* caller is what a run of the same text alone on an empty tracker gives.
C2_OutcomeDependsOnOwnDocumentOnly ==
    \A r \in Runs : pc[r] \in Finished => Outcome(r) = OutcomeAlone(inputPipeline[r])

\* C3: a run that validated while an earlier run was still in flight found
\* in the tracker no id it had not put there itself.
C3_NoIdVisibleAcrossConcurrentRuns ==
    \A q \in Runs : \A r \in Runs :
        (q < r /\ pc[q] = "awaiting" /\ pc[r] # "idle") => Foreign(r) = {}

\* C4: a run whose validation found a defect and that is past its await has
\* returned to its caller, and the process has not been terminated.
C4_DiagnosticsReturnedToCaller ==
    \A r \in Runs :
        (errors[r] # << >> /\ pc[r] # "awaiting") => (pc[r] = "returned" /\ ~exited)

\* C5: a run on a text that is not valid JSON ends with the document error,
\* with nothing mapped, no rule run (so nothing put in the tracker) and no
\* diagnostic.
C5_MalformedTextFailsFast ==
    \A r \in Runs :
        (pc[r] # "idle" /\ inputPipeline[r].t = "malformed")
            => /\ pc[r] = "documentError"
               /\ pipelineDTO[r] = << >>
               /\ log[r] = << >>
               /\ errors[r] = << >>

C5_Witness ==
    \E r \in Runs :
        /\ pc[r] = "documentError"
        /\ inputPipeline[r].t = "malformed"
        /\ validatedIds # << >>

\* C6: when two steps of a validated pipeline carry the same positive id,
\* the second of them in declaration order has the "already used"
\* diagnostic and the first has no diagnostic on its id.
C6_DuplicateIdReportedOnSecondOccurrence ==
    \A r \in Runs :
        Validated(r) =>
            \A i \in 1 .. Len(pipelineDTO[r]) : \A j \in 1 .. Len(pipelineDTO[r]) :
                (/\ i < j
                 /\ pipelineDTO[r][i].id = pipelineDTO[r][j].id
                 /\ isNumber(pipelineDTO[r][i].id)
                 /\ pipelineDTO[r][i].id.n > 0
                 /\ \A h \in 1 .. (j - 1) :
                        pipelineDTO[r][h].id = pipelineDTO[r][i].id => h = i)
                    => /\ HasDiagnostic(r, j, "id", "id is already used!")
                       /\ ~HasFieldDiagnostic(r, i, "id")

\* C7: a step whose id is absent, not a number, 0 or negative gets a
\* diagnostic on its id and its id is not accepted; every value of the
\* tracker, after each step of every pass and now, is a positive number
\* that an identifier rule accepted, and no value is held twice.
C7_OnlyAcceptedPositiveIdsTracked ==
    /\ WellFormedTracker(validatedIds)
    /\ \A v \in Held(validatedIds) :
           \E r \in Runs : v \in AcceptedUpTo(r, Len(log[r]))
    /\ \A r \in Runs : \A i \in 1 .. Len(log[r]) :
           /\ WellFormedTracker(log[r][i].ids)
           /\ (~isNumber(pipelineDTO[r][i].id) \/ pipelineDTO[r][i].id.n <= 0)
                  => /\ log[r][i].accepted = {}
                     /\ (i > 1 => log[r][i].ids = log[r][i - 1].ids)
                     /\ (Validated(r) => HasFieldDiagnostic(r, i, "id"))

C7_Witness ==
    \E r \in Runs :
        /\ pc[r] = "awaiting"
        /\ Len(pipelineDTO[r]) = 2
        /\ pipelineDTO[r][1].id = IdNum(1)
        /\ pipelineDTO[r][2].id = IdNum(0)
        /\ validatedIds = << 1 >>

\* C8: an input that selects a step whose id no identifier rule of the
\* current pass has accepted yet (an id of no step, or of a step declared
\* later) gets the "does not exist" diagnostic.
C8_UnknownOrForwardSelectorRejected ==
    \A r \in Runs :
        Validated(r) =>
            \A i \in 1 .. Len(pipelineDTO[r]) : \A k \in 1 .. 2 :
                (SelectsStep(r, i, k) /\ k \notin AcceptedUpTo(r, i))
                    => HasDiagnostic(r, i, "input", "step does not exist!")

\* C9: an input that selects a step declared earlier whose id was accepted
\* in this pass gets no "does not exist" diagnostic; and the pipeline
\* "split 1, then step 2 selecting step 1" validates without a diagnostic
\* and is returned with its two steps.
C9_BackwardSelectorAccepted ==
    \A r \in Runs :
        /\ Validated(r) =>
               \A i \in 1 .. Len(pipelineDTO[r]) : \A k \in 1 .. 2 :
                   (SelectsStep(r, i, k) /\ k \in AcceptedBefore(r, i))
                       => ~HasDiagnostic(r, i, "input", "step does not exist!")
        /\ (pc[r] # "idle" /\ inputPipeline[r] = SplitThenSelect)
               => /\ errors[r] = << >>
                  /\ pc[r] \in {"awaiting", "returned"}
                  /\ Len(pipelineDTO[r]) = 2

\* C10: a pipeline a run returned has at least one step, its steps have
\* pairwise distinct ids, and its validation had produced no diagnostic.
C10_ReturnedPipelineWellFormed ==
    \A r \in Runs :
        pc[r] = "returned"
            => /\ Len(pipelineDTO[r]) > 0
               /\ \A i \in 1 .. Len(pipelineDTO[r]) : \A j \in 1 .. Len(pipelineDTO[r]) :
                      pipelineDTO[r][i].id = pipelineDTO[r][j].id => i = j
               /\ errors[r] = << >>

C10_Witness ==
    \E r \in Runs : pc[r] = "returned" /\ Len(pipelineDTO[r]) = 2

\* C11: in a pass that went through the whole document, the rules of every
\* step have run, and every field that violates its rule (the id, the
\* input), of any step, has a diagnostic among the errors of the pass,
\* whatever other fields of the same step or of earlier steps failed.
C11_DiagnosticsAccumulated ==
    \A r \in Runs :
        Validated(r) =>
            /\ Len(log[r]) = Len(pipelineDTO[r])
            /\ \A i \in 1 .. Len(pipelineDTO[r]) :
                   /\ IdViolates(r, i) => HasFieldDiagnostic(r, i, "id")
                   /\ InputViolates(r, i) => HasFieldDiagnostic(r, i, "input")

C11_Witness ==
    \E r \in Runs :
        /\ pc[r] = "awaiting"
        /\ Len(pipelineDTO[r]) = 2
        /\ InputViolates(r, 1) /\ HasFieldDiagnostic(r, 1, "input")
        /\ IdViolates(r, 2) /\ HasFieldDiagnostic(r, 2, "id")
        /\ InputViolates(r, 2) /\ HasFieldDiagnostic(r, 2, "input")

\* The call of op has been made.
Called(op) == call.op = op /\ call.done

\* The names of the list that are defined fields of the object.
Defined(names, fields) == {names[i] : i \in 1 .. Len(names)} \cap fields

\* C12: Optional with { includeAny: names } returns (it does not raise);
\* it succeeds when the value is present; when the value is absent it
\* succeeds if one of the names is a defined sibling and fails otherwise.
C12_OptionalIncludeAny ==
    (Called("Optional") /\ call.args.options.includeAny # << >>)
        => /\ ~call.out.threw
           /\ call.args.present => call.out.res.success
           /\ ~call.args.present
                  => (call.out.res.success
                          <=> Defined(call.args.options.includeAny, call.args.fields) # {})

\* C13: Optional with includeAll: [a, b] returns; it succeeds when the
\* value is present, whatever a and b are; when the value is absent it
\* succeeds if a and b are both defined and fails if one of them is not.
C13_OptionalIncludeAll ==
    (Called("Optional") /\ call.args.options.all = "array"
     /\ call.args.options.includeAll = << "a", "b" >>)
        => /\ ~call.out.threw
           /\ call.args.present => call.out.res = Success
           /\ (~call.args.present /\ {"a", "b"} \subseteq call.args.fields)
                  => call.out.res = Success
           /\ (~call.args.present /\ ~({"a", "b"} \subseteq call.args.fields))
                  => call.out.res =
                         Failure("at least one of the following options must be defined", 0)

C13_Witness ==
    /\ Called("Optional")
    /\ call.args.options.includeAll = << "a", "b" >>
    /\ ~call.args.present
    /\ call.args.fields = {"a"}
    /\ ~call.out.res.success

\* The options carry an includeAll that is not an array of at least one
\* name.
MisconfiguredIncludeAll(options) ==
    /\ options.kind = "object"
    /\ options.entries > 0
    /\ \/ options.all \in {"falsy", "emptystring", "notarray"}
       \/ options.all = "array" /\ options.includeAll = << >>

\* C14: Optional whose includeAll is an empty array or not an array
\* raises, whether the value is present or not; it gives no success and
\* no failure.
C14_MisconfigurationRaises ==
    (Called("Optional") /\ MisconfiguredIncludeAll(call.args.options)) => call.out.threw

\* C15: ValidFileInputs on an array shorter than min gives "not enough
\* input files", on one longer than max "too many input files", and on one
\* whose length is within the bounds, the bounds included, neither of them.
C15_InputCountBounds ==
    (Called("ValidFileInputs") /\ call.args.value.t = "array")
        => LET n == Len(call.args.value.items)
               options == call.args.options
           IN  /\ (options.hasMin /\ n < options.min)
                      => call.out.res = Failure("not enough input files!", options.min)
               /\ (options.hasMax /\ n > options.max)
                      => call.out.res = Failure("too many input files!", options.max)
               /\ ((options.hasMin => n >= options.min) /\ (options.hasMax => n <= options.max))
                      => call.out.res.message
                             \notin {"not enough input files!", "too many input files!"}

C15_Witness ==
    /\ Called("ValidFileInputs")
    /\ call.args.options.hasMin /\ call.args.options.hasMax
    /\ call.args.value.t = "array"
    /\ Len(call.args.value.items) = call.args.options.min
    /\ Len(call.args.value.items) = call.args.options.max
    /\ call.out.res = Success

\* The count of the elements is within the bounds of the options.
CountAllowed(items, options) ==
    /\ options.hasMin => Len(items) >= options.min
    /\ options.hasMax => Len(items) <= options.max

\* The selector can be constructed and its target, if it has one, is held
\* by the tracker.
SelectorResolves(input, ids) ==
    /\ isSelector(input)
    /\ input.initOk
    /\ input.hasTarget => isIdAlreadyUsed(ids, input.target)

\* C16: with videoOnly, an array within the count bounds whose first
\* element that is not a video file is a filename gets "input file must be
\* a video"; the diagnostic is never given on account of a selector (an
\* array whose filenames are all videos does not get it), and an array of
\* selectors that resolve is accepted though none has a video extension.
C16_VideoOnlyExemptsSelectors ==
    (Called("ValidFileInputs") /\ call.args.value.t = "array" /\ call.args.options.videoOnly
     /\ CountAllowed(call.args.value.items, call.args.options))
        => LET items == call.args.value.items
           IN  /\ \A i \in 1 .. Len(items) :
                      (/\ isValidFilename(items[i]) /\ ~hasVideoExtension(items[i])
                       /\ \A j \in 1 .. (i - 1) :
                              isValidFilename(items[j]) /\ hasVideoExtension(items[j]))
                          => call.out.res = Failure("input file must be a video", 0)
               /\ (\A i \in 1 .. Len(items) :
                       isValidFilename(items[i]) => hasVideoExtension(items[i]))
                      => call.out.res.message # "input file must be a video"
               /\ (\A i \in 1 .. Len(items) : SelectorResolves(items[i], call.args.ids))
                      => call.out.res.success

C16_Witness ==
    /\ Called("ValidFileInputs")
    /\ call.args.options.videoOnly
    /\ call.args.value.t = "array"
    /\ Len(call.args.value.items) = 2
    /\ call.args.value.items[1] = SelectorItem(1)
    /\ ~hasVideoExtension(call.args.value.items[1])
    /\ call.args.value.items[2] = FileItem("video")
    /\ call.out.res.success

\* C17: Split given both segmentDuration and nbSegments prepares exactly
\* nbSegments segments of duration segmentDuration each; given only
\* segmentDuration it prepares ceil(round(duration) / segmentDuration)
\* segments of that duration; given only nbSegments, nbSegments segments
\* of duration ceil(round(duration) / nbSegments).
C17_SplitBothArguments ==
    (Called("Split") /\ ~call.out.threw)
        => LET given == call.args
               total == MathRound(given.duration)
               segments == call.out.segments
           IN  /\ (given.segmentDuration > 0 /\ given.nbSegments > 0)
                      => /\ Len(segments) = given.nbSegments
                         /\ \A i \in 1 .. Len(segments) : segments[i].t = given.segmentDuration
               /\ (given.segmentDuration > 0 /\ given.nbSegments = 0)
                      => /\ Len(segments) = MathCeil(total, given.segmentDuration)
                         /\ \A i \in 1 .. Len(segments) : segments[i].t = given.segmentDuration
               /\ (given.segmentDuration = 0 /\ given.nbSegments > 0)
                      => /\ Len(segments) = given.nbSegments
                         /\ \A i \in 1 .. Len(segments) :
                                segments[i].t = MathCeil(total, given.nbSegments)

\* C18: on a name that is no known step name, ValidStepName returns the
\* failure "not a valid step name", and neither resolve nor
\* resolveDTOModel raises.
C18_UnknownKindNeverRaises ==
    /\ (Called("ValidStepName") /\ call.args.value \notin KnownStepNames)
           => /\ ~call.out.threw
              /\ call.out.res = Failure("is not a valid step name!", 0)
    /\ ((Called("resolve") \/ Called("resolveDTOModel")) /\ call.args.name \notin KnownStepNames)
           => ~call.out.threw

\* C19: ValidSelector returns on every value; on a selector, with an
\* expected type configured, it returns a failure with a message when the
\* selector cannot be initialised or has another output type.
C19_SelectorRuleNeverRaises ==
    Called("ValidSelector")
        => /\ ~call.out.threw
           /\ (/\ isSelector(call.args.value)
               /\ call.args.options.kind = "object"
               /\ call.args.options.expectedType # "none"
               /\ (~call.args.value.initOk
                   \/ call.args.value.outType # call.args.options.expectedType))
                  => /\ ~call.out.res.success
                     /\ call.out.res.message # ""

\* The decorator gives Optional no options: no constraints array, an
\* undefined first constraint, or an empty object.
NoOptions(options) ==
    \/ options.kind \in {"null", "undefined"}
    \/ options.kind = "object" /\ options.entries = 0

\* C20: Optional without options returns, success when the value is
\* defined and the failure "value is not defined!" when it is not.
C20_OptionalWithoutOptions ==
    (Called("Optional") /\ NoOptions(call.args.options))
        => /\ ~call.out.threw
           /\ call.args.present => call.out.res = Success
           /\ ~call.args.present => call.out.res = Failure("value is not defined!", 0)

\* The call of FfmpegProcess is past the answer of getDuration.
Resumed == call.op = "FfmpegProcess" /\ call.out.pc # "getDuration"

\* C21: the promise of FfmpegProcess does not stay pending once nothing is
\* left to happen; it is rejected when the duration could not be
\* determined, when neither segmentDuration nor nbSegments is given and
\* when a segment command failed; it is resolved, with one file per
\* segment, when and only when every segment command has ended.
C21_PromiseSettles ==
    call.op = "FfmpegProcess"
        => /\ call.out.promise # "pending" \/ ENABLED NextSplit
           /\ (Resumed /\ call.args.duration = 0) => call.out.promise = "rejected"
           /\ (Resumed /\ call.args.segmentDuration = 0 /\ call.args.nbSegments = 0)
                  => call.out.promise = "rejected"
           /\ (\E i \in DOMAIN call.out.processes : call.out.processes[i] = "errored")
                  => call.out.promise = "rejected"
           /\ (call.out.pc = "waiting"
               /\ \A i \in DOMAIN call.out.processes : call.out.processes[i] = "ended")
                  => /\ call.out.promise = "resolved"
                     /\ call.out.outputFiles = Len(call.out.processes)
           /\ call.out.promise = "resolved"
                  => \A i \in DOMAIN call.out.processes : call.out.processes[i] = "ended"

====
